---- MODULE Spec2Model ----
(***************************************************************************)
(* The portfolio's LaTeX-to-HTML transpiler (parseAndRender), the math     *)
(* hydration effect of the TeXRenderer component, the figure image lookup  *)
(* (findImageUrl) and the build-time extractor (ingestProjects).           *)
(*                                                                         *)
(* Text is a sequence of tokens.  A token is the literal text it spells:   *)
(* a single character ("$", "x", "&"), a command the regular expressions   *)
(* of the source match as a whole ("\\begin{equation}", "\\item"), or a    *)
(* piece of markup the source emits from a template literal.  Every        *)
(* regular expression of the source is modelled by what it matches on      *)
(* these tokens.  Passes of parseAndRender whose pattern needs a literal   *)
(* that no token of the model spells (\texorpdfstring, \documentclass,     *)
(* \usepackage, \begin{document}, abstract, \maketitle, table, tabular,    *)
(* \geometry, \pagestyle, \setcounter, \renewcommand, \centering, \hfill,  *)
(* \label, [H] [h] [t] [b] [htbp] [!htbp], 0.48, \textwidth, \caption*,    *)
(* \title, \author, \date, \today, \footnote, \section, \subsection,       *)
(* the --- rule and the "- " bullets; lines 64, 124-139, 141-149, 156-179, *)
(* 389-395) leave every text of the model unchanged and are not written    *)
(* out.  Of a project's document the extractor model keeps the image       *)
(* paths; extractTeXMetadata and the title, summary, content and date of a *)
(* record are left out.                                                    *)
(***************************************************************************)
EXTENDS Integers, Sequences, FiniteSets, TLC

\* ----------------------------------------------------------------- bounds
\* Longest free-form math document (tokens).
MaxLen == 4
\* Most lines of the payload of a multi-line display span.
MaxLines == 3
\* Most \item commands of a list.
MaxItems == 3
\* Most blocks (direct image, subfigure, minipage) of a figure.
MaxBlocks == 4
\* Most entries of the projects directory.
MaxFolders == 2
\* Longest caption text (tokens).
MaxCaption == 4
\* Most math spans of a document of spans.
MaxSpans == 3

\* ------------------------------------------------------------ sequences
SeqsUpTo(S, n) == UNION {[1..k -> S] : k \in 0..n}

\* Concatenation of a sequence of sequences.
RECURSIVE Flatten(_)
Flatten(ss) ==
    IF Len(ss) = 0 THEN <<>>
    ELSE IF Len(ss) = 1 THEN ss[1]
    ELSE Flatten(SubSeq(ss, 1, Len(ss) \div 2)) \o Flatten(SubSeq(ss, Len(ss) \div 2 + 1, Len(ss)))

Count(t, s) == Cardinality({i \in 1..Len(s) : s[i] = t})

Occurs(t, s) == \E i \in 1..Len(s) : s[i] = t

Least(c) == CHOOSE m \in c : \A k \in c : m <= k

\* First index >= i of s whose token is in S, 0 when there is none.
IndexFrom(S, s, i) ==
    IF \E j \in i..Len(s) : s[j] \in S THEN Least({j \in i..Len(s) : s[j] \in S}) ELSE 0

\* Last index <= i of s whose token is in S, 0 when there is none.
LastIndexUpTo(S, s, i) ==
    IF \E j \in 1..i : s[j] \in S THEN i + 1 - Least({d \in 1..i : s[i + 1 - d] \in S}) ELSE 0

\* Length of the longest prefix of s made of tokens of S.
RunLen(S, s) ==
    IF \A i \in 1..Len(s) : s[i] \in S THEN Len(s) ELSE Least({i \in 1..Len(s) : s[i] \notin S}) - 1

\* The tokens of s at the given indices, in order.
At(s, indices) == [k \in 1..Len(indices) |-> s[indices[k]]]

\* --------------------------------------------------------------- tokens
\* White space (\s of the regular expressions, String.prototype.trim).
SpaceTokens == {" ", "\n", "    ", "      ", "        ", "          ", "            ", "              "}
IsSpace(t) == t \in SpaceTokens

TrimLeft(s) == SubSeq(s, RunLen(SpaceTokens, s) + 1, Len(s))

TrimRight(s) ==
    IF \A i \in 1..Len(s) : IsSpace(s[i]) THEN <<>>
    ELSE SubSeq(s, 1, Len(s) + 1 - Least({d \in 1..Len(s) : ~IsSpace(s[Len(s) + 1 - d])}))

\* String.prototype.trim
Trim(s) == TrimRight(TrimLeft(s))

\* The placeholder keys `__MATH_DISPLAY_${mathCounter}__` and
\* `__MATH_INLINE_${mathCounter}__`, by counter value (from 0).
DisplayKeys ==
    << "__MATH_DISPLAY_0__", "__MATH_DISPLAY_1__", "__MATH_DISPLAY_2__",
       "__MATH_DISPLAY_3__", "__MATH_DISPLAY_4__", "__MATH_DISPLAY_5__" >>
InlineKeys ==
    << "__MATH_INLINE_0__", "__MATH_INLINE_1__", "__MATH_INLINE_2__",
       "__MATH_INLINE_3__", "__MATH_INLINE_4__", "__MATH_INLINE_5__" >>
KeyTokens == {DisplayKeys[i] : i \in DOMAIN DisplayKeys} \cup {InlineKeys[i] : i \in DOMAIN InlineKeys}

\* The two halves of the stored markup around the trimmed payload.
DivOpen == "<div class=\"my-6 overflow-x-auto\" data-math=\""
DivClose == "\" data-display=\"true\"></div>"
SpanOpen == "<span data-math=\""
SpanClose == "\" data-display=\"false\"></span>"

\* -------------------------------------------------- PHASE 1: extract math
\* The eight extraction passes in source order.
\* The passes with the inline pass run first instead of last.
PassesInlineFirst ==
    << "inline", "bracket", "dollars", "equation", "align", "gather", "eqnarray", "multline" >>
Passes == << "bracket", "dollars", "equation", "align", "gather", "eqnarray", "multline", "inline" >>

BeginTokens(kind) ==
    CASE kind = "equation" -> {"\\begin{equation}", "\\begin{equation*}"}
      [] kind = "align" -> {"\\begin{align}", "\\begin{align*}"}
      [] kind = "gather" -> {"\\begin{gather}", "\\begin{gather*}"}
      [] kind = "eqnarray" -> {"\\begin{eqnarray}", "\\begin{eqnarray*}"}
      [] kind = "multline" -> {"\\begin{multline}", "\\begin{multline*}"}
      [] OTHER -> {}

EndTokens(kind) ==
    CASE kind = "equation" -> {"\\end{equation}", "\\end{equation*}"}
      [] kind = "align" -> {"\\end{align}", "\\end{align*}"}
      [] kind = "gather" -> {"\\end{gather}", "\\end{gather*}"}
      [] kind = "eqnarray" -> {"\\end{eqnarray}", "\\end{eqnarray*}"}
      [] kind = "multline" -> {"\\end{multline}", "\\end{multline*}"}
      [] OTHER -> {}

\* Tokens the opening (closing) delimiter of a pass spans: $$ is two "$".
DelimLen(kind) == IF kind = "dollars" THEN 2 ELSE 1

OpensAt(kind, s, i) ==
    CASE kind = "bracket" -> s[i] = "\\["
      [] kind = "dollars" -> i + 1 <= Len(s) /\ s[i] = "$" /\ s[i + 1] = "$"
      [] kind = "inline" -> s[i] = "$"
      [] OTHER -> s[i] \in BeginTokens(kind)

ClosesAt(kind, s, j) ==
    CASE kind = "bracket" -> s[j] = "\\]"
      [] kind = "dollars" -> j + 1 <= Len(s) /\ s[j] = "$" /\ s[j + 1] = "$"
      [] kind = "inline" -> s[j] = "$"
      [] OTHER -> s[j] \in EndTokens(kind)

\* First index >= j at which the closing delimiter of the pass matches, 0 if none:
\* the lazy ([\s\S]*?) stops at the first closing delimiter.
FirstClose(kind, s, j) ==
    IF \E k \in j..Len(s) : ClosesAt(kind, s, k)
    THEN Least({k \in j..Len(s) : ClosesAt(kind, s, k)}) ELSE 0

\* Where the closing delimiter of a match that opens at i starts, 0 when the
\* pattern does not match at i.  The inline pattern \$([^$]+?)\$ needs at least
\* one token, none of them "$", between the two dollars.
MatchEnd(kind, s, i) ==
    IF ~OpensAt(kind, s, i) THEN 0
    ELSE IF kind = "inline"
         THEN LET j == FirstClose(kind, s, i + 1) IN IF j > i + 1 THEN j ELSE 0
         ELSE FirstClose(kind, s, i + DelimLen(kind))

KeyOf(kind, counter) ==
    IF kind = "inline" THEN InlineKeys[counter + 1] ELSE DisplayKeys[counter + 1]

\* The markup stored in mathBlocks[key]: math.trim() between the attribute's quotes.
Markup(kind, math) ==
    IF kind = "inline"
    THEN <<SpanOpen>> \o Trim(math) \o <<SpanClose>>
    ELSE <<DivOpen>> \o Trim(math) \o <<DivClose>>

\* Where the leftmost match at or after i starts, 0 when there is none.
NextMatch(kind, s, i) ==
    IF \E k \in i..Len(s) : MatchEnd(kind, s, k) # 0
    THEN Least({k \in i..Len(s) : MatchEnd(kind, s, k) # 0}) ELSE 0

\* The callback of a phase 1 replace for the payload math, the text before the
\* match being added first: the key is minted, the markup stored, the counter
\* stepped, and the key takes the place of the match.
Mint(acc, before, kind, math) ==
    [html |-> Append(acc.html \o before, KeyOf(kind, acc.counter)),
     blocks |-> Append(acc.blocks, [key |-> KeyOf(kind, acc.counter), value |-> Markup(kind, math)]),
     counter |-> acc.counter + 1]

\* One html.replace(/.../g, callback) of phase 1 from index i on; acc carries the
\* text produced so far, mathBlocks (in insertion order) and mathCounter; k is
\* where the next match starts.
RECURSIVE ExtractFrom(_, _, _, _)
ExtractAt(kind, s, i, k, acc) ==
    IF k = 0 THEN [acc EXCEPT !.html = @ \o SubSeq(s, i, Len(s))]
    ELSE ExtractFrom(kind, s, MatchEnd(kind, s, k) + DelimLen(kind),
             Mint(acc, SubSeq(s, i, k - 1), kind,
                  SubSeq(s, k + DelimLen(kind), MatchEnd(kind, s, k) - 1)))
ExtractFrom(kind, s, i, acc) == ExtractAt(kind, s, i, NextMatch(kind, s, i), acc)

ExtractPass(kind, acc) == ExtractFrom(kind, acc.html, 1, [acc EXCEPT !.html = <<>>])

RECURSIVE ExtractPasses(_, _)
ExtractPasses(kinds, acc) ==
    IF kinds = <<>> THEN acc ELSE ExtractPasses(Tail(kinds), ExtractPass(Head(kinds), acc))

\* PHASE 1 as a whole: mathBlocks = {}, mathCounter = 0, then the eight passes.
ExtractMath(s) == ExtractPasses(Passes, [html |-> s, blocks |-> <<>>, counter |-> 0])

\* ------------------------------------------- PHASE 2: comments, blank lines
\* html.replace(/%[^\n]*/g, ''): from a "%" up to, not including, the next newline.
InComment(s, i) ==
    /\ LastIndexUpTo({"%"}, s, i) # 0
    /\ \A j \in LastIndexUpTo({"%"}, s, i)..i : s[j] # "\n"
RemoveComments(s) == At(s, SelectSeq([i \in 1..Len(s) |-> i], LAMBDA i : ~InComment(s, i)))

\* Tokens without a letter or a digit: [^a-zA-Z0-9] matches each of them whole.
NonAlnumTokens == SpaceTokens \cup {"$", "\\[", "\\]", "\"", "&", "%", "}", "]\">"}

\* html.replace(/^[^a-zA-Z0-9]*\n/gm, '') with s starting at a line start: the
\* greedy class runs over newlines too and backtracks to the last newline of the
\* run; the scan then resumes at the next line start.
RECURSIVE StripBlankLines(_)
StripBlankLines(s) ==
    IF s = <<>> THEN <<>>
    ELSE LET run == RunLen(NonAlnumTokens, s)
             cut == LastIndexUpTo({"\n"}, s, run)
             rest == SubSeq(s, cut + 1, Len(s))
             nl == IndexFrom({"\n"}, rest, 1)
         IN IF nl = 0 THEN rest
            ELSE SubSeq(rest, 1, nl) \o StripBlankLines(SubSeq(rest, nl + 1, Len(rest)))

\* ------------------------------------------------------------ findImageUrl
\* A file name or a path is one token; the string operations work on its
\* characters.  An image mapping is the sequence of its entries [key, url] in
\* insertion order (Object.entries).
NameChars(p) ==
    CASE p = "a.p" -> <<"a", ".", "p">>
      [] p = "A.P" -> <<"A", ".", "P">>
      [] p = "a.j" -> <<"a", ".", "j">>
      [] p = "d/a.p" -> <<"d", "/", "a", ".", "p">>
      [] p = "m.p" -> <<"m", ".", "p">>
      [] p = "b.p" -> <<"b", ".", "p">>
      [] p = "d/b.p" -> <<"d", "/", "b", ".", "p">>
      [] p = "d/m.p" -> <<"d", "/", "m", ".", "p">>
      [] p = "d" -> <<"d">>
      [] p = "Project-1" -> <<"P", "r", "o", "j", "e", "c", "t", "-", "1">>
      [] p = "Project - 2" -> <<"P", "r", "o", "j", "e", "c", "t", " ", "-", " ", "2">>
      [] p = "Demo!" -> <<"D", "e", "m", "o", "!">>
      [] p = "demo" -> <<"d", "e", "m", "o">>
      [] p = "d_e" -> <<"d", "_", "e">>

LowerChar(c) ==
    CASE c = "A" -> "a" [] c = "B" -> "b" [] c = "P" -> "p" [] c = "J" -> "j" [] c = "M" -> "m"
      [] c = "D" -> "d"
      [] OTHER -> c

\* String.prototype.toLowerCase
toLowerCase(s) == [i \in 1..Len(s) |-> LowerChar(s[i])]

\* fileName.split('/').pop()
LastSegment(s) == SubSeq(s, LastIndexUpTo({"/"}, s, Len(s)) + 1, Len(s))

\* .replace(/\s+/g, '')
RemoveSpaces(s) == SelectSeq(s, LAMBDA c : ~IsSpace(c))

\* fileName.split('/').pop()?.replace(/\s+/g, '') || fileName
CleanFileName(fileName) ==
    LET c == RemoveSpaces(LastSegment(fileName)) IN IF c = <<>> THEN fileName ELSE c

\* .replace(/\.[^.]+$/, ''): the last dot and what follows it, when something does.
StripExtension(s) ==
    LET d == LastIndexUpTo({"."}, s, Len(s))
    IN IF d = 0 \/ d = Len(s) THEN s ELSE SubSeq(s, 1, d - 1)

\* null, the value findImageUrl returns when no entry matches (a URL is the
\* sequence of its tokens, and never empty).
NoUrl == <<>>

\* The test of the loop body of findImageUrl for one entry.
EntryMatches(key, cleanFileName) ==
    \/ toLowerCase(key) = toLowerCase(cleanFileName)
    \/ toLowerCase(StripExtension(key)) = toLowerCase(StripExtension(cleanFileName))

\* The for loop of findImageUrl over the entries left.
RECURSIVE FirstMatch(_, _)
FirstMatch(entries, cleanFileName) ==
    IF entries = <<>> THEN NoUrl
    ELSE IF EntryMatches(NameChars(Head(entries).key), cleanFileName) THEN Head(entries).url
    ELSE FirstMatch(Tail(entries), cleanFileName)

findImageUrl(fileName, imgs) == FirstMatch(imgs, CleanFileName(fileName))

\* ------------------------------------------------ PHASE 5a: figure environments
\* The paths written in \includegraphics{...}.
PathTokens == {"a.p", "A.P", "a.j", "d/a.p", "m.p"}

IncludeOpen == "\\includegraphics{"
BraceClose == "}"
FigureBegin == "\\begin{figure}"
FigureEnd == "\\end{figure}"
SubfigureBegin == "\\begin{subfigure}"
SubfigureEnd == "\\end{subfigure}"
\* \begin{minipage} with its mandatory width argument.
MinipageBegin == "\\begin{minipage}{5cm}"
MinipageEnd == "\\end{minipage}"

\* The runs of blanks of the template literals.
Sp4 == "    "
Sp6 == "      "
Sp8 == "        "
Sp10 == "          "
Sp12 == "            "
Sp14 == "              "

\* The pieces of the template literals; "%" is a token of its own because the
\* comment pass matches it.
SubItemOpenA == "<div class=\"flex-1 min-w-[280px] max-w-[48"
MiniItemOpenA == "<div class=\"w-[48"
ItemOpenB == "]\">"
MiniItemOpenB == "] min-w-[280px]\">"
ImgOpen == "<img src=\""
ImgAlt == "\" alt=\""
ImgCloseItem == "\" class=\"w-full h-auto rounded-lg\" loading=\"lazy\" />"
ImgCloseDirect == "\" class=\"max-w-3xl w-full h-auto rounded-lg mx-auto\" loading=\"lazy\" />"
ItemClose == "</div>"
AssetsPrefix == "/assets/"
FigureOpen == "<figure class=\"my-8\">"
FigureClose == "</figure>"
GridOpen == "<div class=\"grid grid-cols-1 md:grid-cols-2 gap-4\">"
FlexOpen == "<div class=\"flex flex-wrap gap-4 justify-center\">"

\* content.match(/\\includegraphics(?:\s*\[[^\]]*\])?\s*\{([^}]+)\}/): the path of
\* the first image-inclusion command of the content, <<>> when there is none.
ImageAt(content, i) ==
    /\ i + 2 <= Len(content)
    /\ content[i] = IncludeOpen
    /\ content[i + 1] \in PathTokens
    /\ content[i + 2] = BraceClose
FirstImagePath(content) ==
    IF \E i \in 1..Len(content) : ImageAt(content, i)
    THEN <<content[Least({i \in 1..Len(content) : ImageAt(content, i)}) + 1]>>
    ELSE <<>>

\* The entry pushed for a subfigure: the mapped URL, or the fallback URL
\* `/assets/${imgMatch[1]}` when findImageUrl returns null (lines 252-273).
SubfigureEntry(path, url) ==
    <<"\n", Sp12, SubItemOpenA, "%", ItemOpenB, "\n", Sp14, ImgOpen>>
        \o (IF url # NoUrl THEN url ELSE <<AssetsPrefix, path>>)
        \o <<ImgAlt, path, ImgCloseItem, "\n", Sp14, "\n", Sp12, ItemClose, "\n", Sp10>>

\* What the subfigure loop pushes for a block whose image is at path.
SubfigureItem(path, imgs) == <<SubfigureEntry(path, findImageUrl(NameChars(path), imgs))>>

\* The minipage loop with the fallback branch of the subfigure loop.
MinipageEntryFallback(path, url) ==
    << <<"\n", Sp12, MiniItemOpenA, "%", MiniItemOpenB, "\n", Sp14, ImgOpen>>
           \o (IF url # NoUrl THEN url ELSE <<AssetsPrefix, path>>)
           \o <<ImgAlt, path, ImgCloseItem, "\n", Sp14, "\n", Sp12, ItemClose, "\n", Sp10>> >>

\* The entry pushed for a minipage: only when the image resolves (lines 284-296).
MinipageEntry(path, url) ==
    IF url = NoUrl THEN <<>>
    ELSE << <<"\n", Sp12, MiniItemOpenA, "%", MiniItemOpenB, "\n", Sp14, ImgOpen>> \o url
                \o <<ImgAlt, path, ImgCloseItem, "\n", Sp14, "\n", Sp12, ItemClose, "\n", Sp10>> >>

\* What the minipage loop pushes for a block whose image is at path.
MinipageItem(path, imgs) == MinipageEntry(path, findImageUrl(NameChars(path), imgs))

\* The body of the two while loops: img is the match of the image-inclusion
\* pattern in the block, <<>> for no match.
BlockItem(img, beginTok, imgs) ==
    IF img = <<>> THEN <<>>
    ELSE IF beginTok = SubfigureBegin THEN SubfigureItem(img[1], imgs)
    ELSE MinipageItem(img[1], imgs)

\* The while loops over subfigureRegex / minipageRegex: one entry of imageMatches
\* per block (begin paired with the first end after it) that holds an image.
RECURSIVE BlockItems(_, _, _, _)
BlockItems(content, beginTok, endTok, imgs) ==
    LET i == IndexFrom({beginTok}, content, 1)
        j == IF i = 0 THEN 0 ELSE IndexFrom({endTok}, content, i + 1)
    IN IF j = 0 THEN <<>>
       ELSE BlockItem(FirstImagePath(SubSeq(content, i + 1, j - 1)), beginTok, imgs)
                \o BlockItems(SubSeq(content, j + 1, Len(content)), beginTok, endTok, imgs)

\* The direct \includegraphics, looked for only when no block gave an entry
\* (lines 300-320): the first one of the figure, kept when it resolves.
DirectEntry(imgPath, url) ==
    IF url = NoUrl THEN <<>>
    ELSE << <<ImgOpen>> \o url \o <<ImgAlt, imgPath, ImgCloseDirect>> >>

DirectItem(img, imgs) ==
    IF img = <<>> THEN <<>> ELSE DirectEntry(img[1], findImageUrl(NameChars(img[1]), imgs))

DirectItems(content, imgs) == DirectItem(FirstImagePath(content), imgs)

\* if (imageMatches.length === 0) { ...direct... }: blocks is imageMatches after
\* the two loops.
WithDirect(blocks, content, imgs) ==
    IF blocks = <<>> THEN DirectItems(content, imgs) ELSE blocks

\* imageMatches at line 322.
ImageMatches(content, imgs) ==
    WithDirect(BlockItems(content, SubfigureBegin, SubfigureEnd, imgs)
                   \o BlockItems(content, MinipageBegin, MinipageEnd, imgs),
               content, imgs)

\* \caption{ as the patterns of lines 140 and 198 match it.
CaptionOpen == "\\caption{"
BraceOpen == "{"
CaptionPOpen == "<p class=\"text-sm text-gray-400 mt-4 text-center italic\">"

\* What a token adds to braceCount in the loop of lines 203-207.  (The braces
\* of a \begin{...} or \end{...} token cancel out and never bring a count of
\* one or more down to zero.)
BraceDelta(t) ==
    IF t \in {BraceOpen, IncludeOpen, CaptionOpen} THEN 1 ELSE IF t = BraceClose THEN 0 - 1 ELSE 0

\* The while loop of lines 203-207 from index i with braceCount = count: the
\* value of endIdx when it ends (one past the balancing brace, or the length).
RECURSIVE CaptionEnd(_, _, _)
CaptionEnd(figContent, i, count) ==
    IF count <= 0 \/ i > Len(figContent) THEN i
    ELSE CaptionEnd(figContent, i + 1, count + BraceDelta(figContent[i]))

\* Lines 197-209: caption, '' when figContent holds no \caption{.
Caption(figContent) ==
    IF ~Occurs(CaptionOpen, figContent) THEN <<>>
    ELSE SubSeq(figContent, IndexFrom({CaptionOpen}, figContent, 1) + 1,
                CaptionEnd(figContent, IndexFrom({CaptionOpen}, figContent, 1) + 1, 1) - 2)

\* processCaptionMath (lines 215-229): every match of /\$([^$]+?)\$/g becomes
\* its key and each key is then replaced by its span, so that every match
\* becomes the span of its trimmed payload (no text holds __CAP_MATH_).
RECURSIVE processCaptionMath(_)
CaptionMathAt(captionText, k) ==
    IF k = 0 THEN captionText
    ELSE SubSeq(captionText, 1, k - 1)
             \o Markup("inline", SubSeq(captionText, k + 1, MatchEnd("inline", captionText, k) - 1))
             \o processCaptionMath(SubSeq(captionText, MatchEnd("inline", captionText, k) + 1,
                                          Len(captionText)))
processCaptionMath(captionText) == CaptionMathAt(captionText, NextMatch("inline", captionText, 1))

PClose == "</p>"

\* captionHtml (lines 325-327).
CaptionHtml(processedCaption) ==
    IF processedCaption = <<>> THEN <<>> ELSE <<CaptionPOpen>> \o processedCaption \o <<PClose>>

\* The layout of lines 329-332 with the grid class for every even count.
FigureHtmlEvenGrid(imageMatches, captionHtml) ==
    IF Len(imageMatches) = 0 THEN <<>>
    ELSE <<"\n", Sp6, FigureOpen, "\n", Sp8,
           IF Len(imageMatches) % 2 = 0 THEN GridOpen ELSE FlexOpen, "\n", Sp10>>
             \o Flatten(imageMatches)
             \o <<"\n", Sp8, ItemClose, "\n", Sp8>> \o captionHtml
             \o <<"\n", Sp6, FigureClose, "\n", Sp4>>

\* Lines 322-341: '' for no entry, else the figure element, with the grid layout
\* class for exactly four entries, and the caption paragraph after the images.
FigureHtml(imageMatches, captionHtml) ==
    IF Len(imageMatches) = 0 THEN <<>>
    ELSE <<"\n", Sp6, FigureOpen, "\n", Sp8,
           IF Len(imageMatches) = 4 THEN GridOpen ELSE FlexOpen, "\n", Sp10>>
             \o Flatten(imageMatches)
             \o <<"\n", Sp8, ItemClose, "\n", Sp8>> \o captionHtml
             \o <<"\n", Sp6, FigureClose, "\n", Sp4>>

\* The callback of the figure replace: what one figure environment becomes.
RenderFigure(content, imgs) ==
    FigureHtml(ImageMatches(content, imgs), CaptionHtml(processCaptionMath(Caption(content))))

\* One replacement: the text before the match and the callback's value are added
\* to the new text.
AddFigure(acc, before, fig) ==
    [html |-> acc.html \o before \o fig, figures |-> Append(acc.figures, fig)]

\* html.replace(/\\begin\{figure\}(?:\[[^\]]*\])?([\s\S]*?)\\end\{figure\}/g, ...):
\* the text, and the value the callback returned for each figure in turn.
RECURSIVE ConvertFigures(_, _, _)
ConvertFigures(s, imgs, acc) ==
    LET i == IndexFrom({FigureBegin}, s, 1)
        j == IF i = 0 THEN 0 ELSE IndexFrom({FigureEnd}, s, i + 1)
    IN IF j = 0 THEN [acc EXCEPT !.html = @ \o s]
       ELSE ConvertFigures(SubSeq(s, j + 1, Len(s)), imgs,
                AddFigure(acc, SubSeq(s, 1, i - 1), RenderFigure(SubSeq(s, i + 1, j - 1), imgs)))

\* The simple match of the standalone pass (line 350): equal ignoring case, or
\* the key includes the file name.  The keys and the file names of the paths
\* have the same length, so includes() is equality.
RECURSIVE StandaloneMatch(_, _)
StandaloneMatch(entries, fileName) ==
    IF entries = <<>> THEN NoUrl
    ELSE IF \/ toLowerCase(NameChars(Head(entries).key)) = toLowerCase(fileName)
            \/ NameChars(Head(entries).key) = fileName
         THEN Head(entries).url
         ELSE StandaloneMatch(Tail(entries), fileName)

\* The token that spells a file name given by its characters.
FileToken(chars) == CHOOSE p \in PathTokens \cup {"b.p", "d"} : NameChars(p) = chars

StandaloneOpen == "<img src=\""
StandaloneClose == "\" class=\"max-w-full h-auto rounded-lg my-4\" loading=\"lazy\" />"

\* let fileName = imagePath.split('/').pop() || imagePath; then the blanks go.
StandaloneFileName(imagePath) ==
    RemoveSpaces(IF LastSegment(imagePath) = <<>> THEN imagePath ELSE LastSegment(imagePath))

StandaloneTag(fileName, url) ==
    IF url = NoUrl THEN <<>>
    ELSE <<StandaloneOpen>> \o url \o <<ImgAlt, FileToken(fileName), StandaloneClose>>

\* The callback of the standalone replace.
StandaloneImage(fileName, imgs) == StandaloneTag(fileName, StandaloneMatch(imgs, fileName))

\* html.replace(/\\includegraphics(?:\s*\[[^\]]*\])?\s*\{([^}]+)\}/g, ...): the
\* image-inclusion commands left outside figures.
RECURSIVE ConvertStandalone(_, _)
StandaloneAt(s, k, imgs) ==
    IF k = 0 THEN s
    ELSE SubSeq(s, 1, k - 1) \o StandaloneImage(StandaloneFileName(NameChars(s[k + 1])), imgs)
             \o ConvertStandalone(SubSeq(s, k + 3, Len(s)), imgs)
ConvertStandalone(s, imgs) ==
    StandaloneAt(s, IF \E i \in 1..Len(s) : ImageAt(s, i)
                    THEN Least({i \in 1..Len(s) : ImageAt(s, i)}) ELSE 0, imgs)

\* ------------------------------------------------------------------ lists
UlOpen =="<ul class=\"my-4 space-y-1\">"
UlClose == "</ul>"
OlOpen == "<ol class=\"my-4 space-y-1\">"
OlClose == "</ol>"
LiOpen == "<li class=\"ml-4 mb-2 text-gray-200\">"
LiClose == "</li>"
\* The bullet marker of the template, U+2022 and a space, spelled in ASCII.
Bullet == "\\u2022 "
\* `${idx + 1}. ` by idx + 1.
Ordinals == << "1. ", "2. ", "3. ", "4. ", "5. ", "6. " >>

\* items.split(/\\item\s*/): the separator takes the white space after \item.
\* cur is the part being read, parts the parts already closed.
RECURSIVE SplitItems(_, _, _)
SplitItems(s, cur, parts) ==
    IF s = <<>> THEN Append(parts, cur)
    ELSE IF Head(s) = "\\item"
         THEN SplitItems(TrimLeft(Tail(s)), <<>>, Append(parts, cur))
         ELSE SplitItems(Tail(s), Append(cur, Head(s)), parts)

\* .filter((s) => s.trim())
RECURSIVE NonEmptyParts(_)
NonEmptyParts(parts) ==
    IF parts = <<>> THEN <<>>
    ELSE (IF Trim(Head(parts)) # <<>> THEN <<Head(parts)>> ELSE <<>>) \o NonEmptyParts(Tail(parts))

\* One <li> of the itemize (ordered = FALSE) or enumerate callback; idx from 0.
ListItem(text, idx, ordered) ==
    <<LiOpen, IF ordered THEN Ordinals[idx + 1] ELSE Bullet>> \o Trim(text) \o <<LiClose>>

RECURSIVE ListItems(_, _, _)
ListItems(parts, idx, ordered) ==
    IF parts = <<>> THEN <<>>
    ELSE ListItem(Head(parts), idx, ordered) \o ListItems(Tail(parts), idx + 1, ordered)

\* The callback of the itemize / enumerate replace: the whole <ul> or <ol>.
RenderList(items, ordered) ==
    <<IF ordered THEN OlOpen ELSE UlOpen>>
        \o ListItems(NonEmptyParts(SplitItems(items, <<>>, <<>>)), 0, ordered)
        \o <<IF ordered THEN OlClose ELSE UlClose>>

\* html.replace(/\\begin\{itemize\}([\s\S]*?)\\end\{itemize\}/g, ...) and the same
\* for enumerate: each begin is paired with the first end after it.
RECURSIVE ConvertLists(_, _, _, _)
ListAt(s, k, j, beginTok, endTok, ordered) ==
    IF j = 0 THEN s
    ELSE SubSeq(s, 1, k - 1) \o RenderList(SubSeq(s, k + 1, j - 1), ordered)
             \o ConvertLists(SubSeq(s, j + 1, Len(s)), beginTok, endTok, ordered)
EndAfter(s, k, endTok) == IF k = 0 THEN 0 ELSE IndexFrom({endTok}, s, k + 1)
ConvertLists(s, beginTok, endTok, ordered) ==
    ListAt(s, IndexFrom({beginTok}, s, 1), EndAfter(s, IndexFrom({beginTok}, s, 1), endTok),
           beginTok, endTok, ordered)

\* Where the run (?:<li[^>]*>.*?<\/li>\s*)+ that starts at i ends (its last index),
\* 0 when there is no <li> element at i: "." does not cross a newline.
RECURSIVE LiRunEnd(_, _)
LiRunEnd(s, i) ==
    IF i > Len(s) \/ s[i] # LiOpen THEN 0
    ELSE LET c == IndexFrom({LiClose}, s, i + 1)
             n == IndexFrom({"\n"}, s, i + 1)
         IN IF c = 0 \/ (n # 0 /\ n < c) THEN 0
            ELSE LET e == c + RunLen(SpaceTokens, SubSeq(s, c + 1, Len(s)))
                     more == LiRunEnd(s, e + 1)
                 IN IF more = 0 THEN e ELSE more

\* html.replace(/((?:<li[^>]*>.*?<\/li>\s*)+)/g, '<ul ...>$&</ul>')
RECURSIVE WrapListItems(_, _)
WrapAt(s, i, k) ==
    IF k = 0 THEN SubSeq(s, i, Len(s))
    ELSE SubSeq(s, i, k - 1) \o <<UlOpen>> \o SubSeq(s, k, LiRunEnd(s, k)) \o <<UlClose>>
             \o WrapListItems(s, LiRunEnd(s, k) + 1)
WrapListItems(s, i) ==
    WrapAt(s, i, IF \E k \in i..Len(s) : LiRunEnd(s, k) # 0
                 THEN Least({k \in i..Len(s) : LiRunEnd(s, k) # 0}) ELSE 0)

\* -------------------------------------------------- residual-command sweep
\* Commands written with their braced argument: \\[a-zA-Z]+(?:\{[^}]*\})? takes
\* each of them whole.
EnvTokens ==
    UNION {BeginTokens(k) \cup EndTokens(k) : k \in {"equation", "align", "gather", "eqnarray", "multline"}}
        \cup {"\\begin{itemize}", "\\end{itemize}", "\\begin{enumerate}", "\\end{enumerate}",
              FigureBegin, FigureEnd, SubfigureBegin, SubfigureEnd, MinipageEnd}
\* Commands written without an argument.
BareCommands == {"\\item", "\\alpha"}
\* Tokens made of letters only: [a-zA-Z]+ runs on into them.
LetterTokens == {"x", "A", "B"}

\* Whether the token at i is taken by a match of \\[a-zA-Z]+(?:\{[^}]*\})?: a
\* command, or letters that follow a bare command without a gap.
Swept(s, i) ==
    \/ s[i] \in EnvTokens \cup BareCommands
    \/ /\ s[i] \in LetterTokens
       /\ \E b \in 1..(i - 1) : s[b] \in BareCommands /\ \A j \in (b + 1)..i : s[j] \in LetterTokens

\* html.replace(/\\[a-zA-Z]+(?:\{[^}]*\})?/g, ''): of \begin{minipage}{5cm} the
\* match takes \begin{minipage} and leaves {5cm}.
MinipageWidths(s) == [i \in 1..Len(s) |-> IF s[i] = MinipageBegin THEN "{5cm}" ELSE s[i]]
SweepCommands(s) ==
    MinipageWidths(At(s, SelectSeq([i \in 1..Len(s) |-> i], LAMBDA k : ~Swept(s, k))))

\* html.replace(/\\[^a-zA-Z]/g, '')
SweepSymbols(s) == SelectSeq(s, LAMBDA t : t \notin {"\\[", "\\]"})

\* html.replace(/\{([^}]*)\}/g, '$1'): the only braces a text of the model can
\* hold here are those of a minipage width left behind by the sweep.
FlattenBraces(s) == [i \in 1..Len(s) |-> IF s[i] = "{5cm}" THEN "5cm" ELSE s[i]]

\* ------------------------------------------------------- text formatting
\* PHASE 5 (lines 185-192): the commands in the order of their passes, and the
\* text each replacement puts before and after the argument ($1).
FormatCommands ==
    <<[command |-> "\\textbf{", open |-> <<"<strong>">>, close |-> <<"</strong>">>],
      [command |-> "\\textit{", open |-> <<"<em>">>, close |-> <<"</em>">>],
      [command |-> "\\texttt{", open |-> <<"<code>">>, close |-> <<"</code>">>],
      [command |-> "\\emph{", open |-> <<"<em>">>, close |-> <<"</em>">>],
      [command |-> "\\textsl{", open |-> <<"<em>">>, close |-> <<"</em>">>],
      [command |-> "\\textsc{", open |-> <<"<span class=\"uppercase\">">>, close |-> <<"</span>">>],
      [command |-> "\\textrm{", open |-> <<>>, close |-> <<>>],
      [command |-> "\\textsf{", open |-> <<>>, close |-> <<>>]>>
InlineTags ==
    {"<strong>", "</strong>", "<em>", "</em>", "<code>", "</code>",
     "<span class=\"uppercase\">", "</span>"}

\* html.replace(/\\textbf\{([^}]+)\}/g, '<strong>$1</strong>') and the like, for
\* the command f: i is where the command next occurs, j where the first closing
\* brace after it is (in a text of the model that holds formatting commands a
\* closing brace is a token of its own).  [^}]+ needs one character at least.
RECURSIVE FormatPass(_, _)
FormatAt(s, f, i, j) ==
    IF i = 0 THEN s
    ELSE IF j <= i + 1 THEN SubSeq(s, 1, i) \o FormatPass(SubSeq(s, i + 1, Len(s)), f)
    ELSE SubSeq(s, 1, i - 1) \o f.open \o SubSeq(s, i + 1, j - 1) \o f.close
             \o FormatPass(SubSeq(s, j + 1, Len(s)), f)
FormatPass(s, f) ==
    FormatAt(s, f, IndexFrom({f.command}, s, 1),
             IF IndexFrom({f.command}, s, 1) = 0 THEN 0
             ELSE IndexFrom({BraceClose}, s, IndexFrom({f.command}, s, 1) + 1))

\* The eight passes, one after the other.
FormatText(s) ==
    FormatPass(FormatPass(FormatPass(FormatPass(FormatPass(FormatPass(FormatPass(FormatPass(s,
        FormatCommands[1]), FormatCommands[2]), FormatCommands[3]), FormatCommands[4]),
        FormatCommands[5]), FormatCommands[6]), FormatCommands[7]), FormatCommands[8])

\* ------------------------------------------------------------- escapeHtml
POpen == "<p class=\"mb-4 leading-relaxed text-gray-200\">"

\* Tokens without any of & < > " '.
PlainTokens ==
    SpaceTokens \cup KeyTokens \cup EnvTokens \cup BareCommands \cup LetterTokens \cup PathTokens
        \cup {"$", "%", "\\[", "\\]", Bullet, "5cm", AssetsPrefix}
        \cup {Ordinals[i] : i \in DOMAIN Ordinals}

\* escapeHtml of one token: each of & < > " ' of its text replaced by its entity.
EscapeToken(t) ==
    CASE t = "&" -> "&amp;"
      [] t = "\"" -> "&quot;"
      [] t = "&amp;" -> "&amp;amp;"
      [] t = "&quot;" -> "&amp;quot;"
      [] t = POpen -> "&lt;p class=&quot;mb-4 leading-relaxed text-gray-200&quot;&gt;"
      [] t = PClose -> "&lt;/p&gt;"
      [] t = UlOpen -> "&lt;ul class=&quot;my-4 space-y-1&quot;&gt;"
      [] t = UlClose -> "&lt;/ul&gt;"
      [] t = OlOpen -> "&lt;ol class=&quot;my-4 space-y-1&quot;&gt;"
      [] t = OlClose -> "&lt;/ol&gt;"
      [] t = LiOpen -> "&lt;li class=&quot;ml-4 mb-2 text-gray-200&quot;&gt;"
      [] t = LiClose -> "&lt;/li&gt;"
      [] t = DivOpen -> "&lt;div class=&quot;my-6 overflow-x-auto&quot; data-math=&quot;"
      [] t = DivClose -> "&quot; data-display=&quot;true&quot;&gt;&lt;/div&gt;"
      [] t = SpanOpen -> "&lt;span data-math=&quot;"
      [] t = SpanClose -> "&quot; data-display=&quot;false&quot;&gt;&lt;/span&gt;"
      [] t = "<strong>" -> "&lt;strong&gt;"
      [] t = "</strong>" -> "&lt;/strong&gt;"
      [] t = "<em>" -> "&lt;em&gt;"
      [] t = "</em>" -> "&lt;/em&gt;"
      [] t = "<code>" -> "&lt;code&gt;"
      [] t = "</code>" -> "&lt;/code&gt;"
      [] t = "<span class=\"uppercase\">" -> "&lt;span class=&quot;uppercase&quot;&gt;"
      [] t = "</span>" -> "&lt;/span&gt;"
      [] t \in PlainTokens -> t

escapeHtml(text) == [i \in 1..Len(text) |-> EscapeToken(text[i])]

\* ------------------------------------------------------------- paragraphs
\* Tokens whose text starts with "<": /^</.test(para).
TagTokens ==
    {POpen, PClose, UlOpen, UlClose, OlOpen, OlClose, LiOpen, LiClose, DivOpen, SpanOpen,
     FigureOpen, FigureClose, GridOpen, FlexOpen, SubItemOpenA, MiniItemOpenA, ItemClose, ImgOpen}
        \cup InlineTags

\* html.split(/\n\n+/) from index i on: k is where the next run of two or more
\* newlines starts.
RECURSIVE SplitFrom(_, _)
SplitAt(s, i, k) ==
    IF k = 0 THEN <<SubSeq(s, i, Len(s))>>
    ELSE <<SubSeq(s, i, k - 1)>> \o SplitFrom(s, k + RunLen({"\n"}, SubSeq(s, k, Len(s))))
SplitFrom(s, i) ==
    SplitAt(s, i, IF \E k \in i..(Len(s) - 1) : s[k] = "\n" /\ s[k + 1] = "\n"
                  THEN Least({k \in i..(Len(s) - 1) : s[k] = "\n" /\ s[k + 1] = "\n"}) ELSE 0)
SplitParagraphs(s) == SplitFrom(s, 1)

\* The .map callback: '' for a blank block, the block itself when it starts with
\* a tag, the escaped block in a <p> otherwise.
Paragraph(para) ==
    LET p == Trim(para)
    IN IF p = <<>> THEN <<>>
       ELSE IF Head(p) \in TagTokens THEN p
       ELSE <<POpen>> \o escapeHtml(p) \o <<PClose>>

\* .map(...).filter((p) => p.length > 0).join('')
JoinParagraphs(paras) == Flatten([i \in 1..Len(paras) |-> Paragraph(paras[i])])

MakeParagraphs(s) == JoinParagraphs(SplitParagraphs(s))

\* ---------------------------------------------------------------- restore
\* The replacement patterns of String.prototype.replace in a string value:
\* "$$" inserts "$" and "$&" inserts the matched text (here the key).
RECURSIVE ExpandReplacement(_, _)
ExpandReplacement(value, key) ==
    IF value = <<>> THEN <<>>
    ELSE IF Head(value) = "$" /\ Len(value) >= 2 /\ value[2] = "$"
         THEN <<"$">> \o ExpandReplacement(SubSeq(value, 3, Len(value)), key)
    ELSE IF Head(value) = "$" /\ Len(value) >= 2 /\ value[2] = "&"
         THEN <<key>> \o ExpandReplacement(SubSeq(value, 3, Len(value)), key)
    ELSE <<Head(value)>> \o ExpandReplacement(Tail(value), key)

\* result.replace(new RegExp(escapeHtml(key), 'g'), value)
RECURSIVE ReplaceKey(_, _, _)
ReplaceAt(s, k, key, value) ==
    IF k = 0 THEN s
    ELSE SubSeq(s, 1, k - 1) \o ExpandReplacement(value, key)
             \o ReplaceKey(SubSeq(s, k + 1, Len(s)), key, value)
ReplaceKey(s, key, value) == ReplaceAt(s, IndexFrom({EscapeToken(key)}, s, 1), key, value)

\* for (const [key, value] of Object.entries(mathBlocks)) ...: insertion order.
RECURSIVE RestoreMath(_, _)
RestoreMath(s, blocks) ==
    IF blocks = <<>> THEN s
    ELSE RestoreMath(ReplaceKey(s, Head(blocks).key, Head(blocks).value), Tail(blocks))

\* ---------------------------------------------------------- parseAndRender
\* Lines 345-406 on the text the figure pass left: standalone images, lists,
\* the <li> wrap, the sweep and the trim.
AfterFigures(figs, imgs) ==
    [html |-> Trim(FlattenBraces(SweepSymbols(SweepCommands(WrapListItems(
                  ConvertLists(ConvertLists(ConvertStandalone(figs.html, imgs),
                                            "\\begin{itemize}", "\\end{itemize}", FALSE),
                               "\\begin{enumerate}", "\\end{enumerate}", TRUE), 1))))),
     figures |-> figs.figures]

\* Tokens whose text holds a closing brace; but for \begin{minipage}{5cm} it is
\* their last character.
CloseBraceTokens == {BraceClose, MinipageBegin} \cup EnvTokens

\* html.replace(/\\caption\{[^}]*\}/g, '') of line 140: each \caption{ goes with
\* the text up to and including the first closing brace after it.
RECURSIVE RemoveCaptions(_)
CaptionCut(s, i, j) ==
    IF j = 0 THEN s
    ELSE SubSeq(s, 1, i - 1) \o (IF s[j] = MinipageBegin THEN <<"{5cm}">> ELSE <<>>)
             \o RemoveCaptions(SubSeq(s, j + 1, Len(s)))
RemoveCaptions(s) ==
    IF ~Occurs(CaptionOpen, s) THEN s
    ELSE CaptionCut(s, IndexFrom({CaptionOpen}, s, 1),
                    IndexFrom(CloseBraceTokens, s, IndexFrom({CaptionOpen}, s, 1) + 1))

\* PHASE 2 and PHASE 5 (lines 123-192) on what PHASE 1 left.
Cleaned(s) == FormatText(StripBlankLines(RemoveComments(RemoveCaptions(s))))

\* The text after every phase before the paragraphs are made (lines 123-406),
\* and what each figure became.  (Each phase works on the finished value of
\* the one before: here and below a singleton set binds that value.)
Rewrite(s, imgs) ==
    CHOOSE rw \in {AfterFigures(ConvertFigures(t, imgs, [html |-> <<>>, figures |-> <<>>]), imgs) :
                       t \in {Cleaned(s)}} : TRUE

\* Lines 421-427: the restore loop and the return, with the values the locals hold.
Restored(ex, rw, paragraphs) ==
    [paragraphs |-> paragraphs,
     mathBlocks |-> ex.blocks,
     mathCounter |-> ex.counter,
     figures |-> rw.figures,
     result |-> RestoreMath(paragraphs, ex.blocks)]

\* Lines 408-427 on the rewritten text rw.
Finish(ex, rw) == Restored(ex, rw, MakeParagraphs(rw.html))

\* Lines 123-427 on what PHASE 1 left.
AfterMath(ex, imgs) == CHOOSE r \in {Finish(ex, rw) : rw \in {Rewrite(ex.html, imgs)}} : TRUE

\* parseAndRender(texContent, images): the returned string (result) with the
\* values its locals hold at the return (paragraphs: the text the restore loop
\* starts from; figures: what the figure callback returned, call by call).
parseAndRender(tex, imgs) == CHOOSE r \in {AfterMath(ex, imgs) : ex \in {ExtractMath(tex)}} : TRUE

\* ---------------------------------------------------------- the extractor
\* The extractor reads, per project folder, a document of which the model keeps
\* the paths of its \includegraphics commands in order (extractTeXMetadata, and
\* the title, summary, content and date fields of a record, are left out).

\* Characters the patterns of slugify tell apart.
WordChars ==
    {"a", "b", "c", "d", "e", "j", "m", "o", "p", "r", "t", "x",
     "A", "B", "D", "J", "M", "P", "1", "2", "_"}

\* .replace(/[^\w\s-]/g, '')
KeepsSlugChar(c) == c \in WordChars \/ IsSpace(c) \/ c = "-"
\* .replace(/\s+/g, '-'): index i of s starts a run of white space or is outside one.
DashForSpaces(s) ==
    At([i \in 1..Len(s) |-> IF IsSpace(s[i]) THEN "-" ELSE s[i]],
       SelectSeq([i \in 1..Len(s) |-> i], LAMBDA i : ~IsSpace(s[i]) \/ i = 1 \/ ~IsSpace(s[i - 1])))
\* .replace(/-+/g, '-')
OneDash(s) ==
    At(s, SelectSeq([i \in 1..Len(s) |-> i], LAMBDA i : s[i] # "-" \/ i = 1 \/ s[i - 1] # "-"))
\* The length slugify cuts at.
SlugMax == 50
\* .slice(0, n)
Slice(s, n) == SubSeq(s, 1, IF Len(s) < n THEN Len(s) ELSE n)
slugify(text) ==
    Slice(OneDash(DashForSpaces(SelectSeq(toLowerCase(text), KeepsSlugChar))), SlugMax)

\* fs.existsSync(public/assets/<projectFolder>/<fileName>): the files served.
OnDisk(projectFolder, fileName) == projectFolder = <<"d">> /\ fileName \in {<<"a", ".", "p">>, <<"b", ".", "p">>}

\* images[fileName] = url: a key already there keeps its place.
SetImage(imgs, key, url) ==
    IF \E i \in 1..Len(imgs) : imgs[i].key = key
    THEN [i \in 1..Len(imgs) |-> IF imgs[i].key = key THEN [key |-> key, url |-> url] ELSE imgs[i]]
    ELSE Append(imgs, [key |-> key, url |-> url])

\* parts[0] of imagePath.split('/')
FirstSegment(s) == SubSeq(s, 1, IndexFrom({"/"}, s, 1) - 1)

\* The body of the while loop of extractImages for one match.
AddImage(imgs, imagePath) ==
    IF Occurs("/", imagePath) /\ OnDisk(FirstSegment(imagePath), LastSegment(imagePath))
    THEN SetImage(imgs, FileToken(LastSegment(imagePath)),
                  <<"/", "assets/", FileToken(FirstSegment(imagePath)), "/", FileToken(LastSegment(imagePath))>>)
    ELSE imgs

\* extractImages: refs are the paths of the document's \includegraphics commands.
RECURSIVE extractImages(_, _)
extractImages(refs, imgs) ==
    IF refs = <<>> THEN imgs
    ELSE extractImages(Tail(refs), AddImage(imgs, NameChars(Head(refs))))

\* coverImages of getPreviewImage.
CoverSlugs == {toLowerCase(NameChars("Project-1")), <<"p", "r", "o", "j", "e", "c", "t", "-", "2">>,
               <<"p", "r", "o", "j", "e", "c", "t", "-", "3">>}
CoverImage(slug) == <<"/", "assets/", "project", slug[Len(slug)], "-cover.jpg">>

\* getPreviewImage: the value returned, or the ReferenceError of line 92, where
\* the template literal reads baseUrl, an identifier declared nowhere.
getPreviewImage(imgs, slug) ==
    IF slug \in CoverSlugs THEN [threw |-> FALSE, value |-> CoverImage(slug)]
    ELSE IF Len(imgs) > 0 THEN [threw |-> FALSE, value |-> imgs[1].url]
    ELSE [threw |-> TRUE, value |-> <<>>]

\* The UTF-16 code unit of a character (Array.prototype.sort without comparator).
CodeUnit(c) ==
    CASE c = " " -> 32 [] c = "!" -> 33 [] c = "-" -> 45 [] c = "1" -> 49 [] c = "2" -> 50
      [] c = "D" -> 68 [] c = "P" -> 80 [] c = "_" -> 95 [] c = "c" -> 99 [] c = "d" -> 100
      [] c = "e" -> 101 [] c = "j" -> 106 [] c = "m" -> 109 [] c = "o" -> 111
      [] c = "p" -> 112 [] c = "r" -> 114 [] c = "t" -> 116
\* The place of a character of a slug in the collation order of localeCompare:
\* punctuation, then digits, then letters.
CollationRank(c) ==
    CASE c = "_" -> 1 [] c = "-" -> 2 [] c = "1" -> 3 [] c = "2" -> 4
      [] c = "c" -> 5 [] c = "d" -> 6 [] c = "e" -> 7 [] c = "j" -> 8 [] c = "m" -> 9
      [] c = "o" -> 10 [] c = "p" -> 11 [] c = "r" -> 12 [] c = "t" -> 13
Weight(c, byLocale) == IF byLocale THEN CollationRank(c) ELSE CodeUnit(c)

\* a sorts before b.
Before(a, b, byLocale) ==
    \E k \in 1..Len(b) :
        /\ k <= Len(a) + 1
        /\ \A j \in 1..(k - 1) : a[j] = b[j]
        /\ k = Len(a) + 1 \/ Weight(a[k], byLocale) < Weight(b[k], byLocale)

\* Array.prototype.sort (stable): s ordered by keys, keys[i] being the key of s[i].
PlaceOf(i, keys, byLocale) ==
    1 + Cardinality({j \in 1..Len(keys) :
                        \/ Before(keys[j], keys[i], byLocale)
                        \/ j < i /\ ~Before(keys[i], keys[j], byLocale)})
SortByKeys(s, keys, byLocale) ==
    [p \in 1..Len(s) |-> s[CHOOSE i \in 1..Len(s) : PlaceOf(i, keys, byLocale) = p]]

\* ------------------------------------------------------------ TeXRenderer

\* import.meta.env.BASE_URL: the base of the build configuration.
BasePaths == {"/", "/preet_portfolio/"}

\* processedImages: `${basePath}${value.replace(/^\//, '')}` for every entry.
ProcessedImages(imgs, basePath) ==
    [i \in 1..Len(imgs) |->
        [key |-> imgs[i].key,
         url |-> <<basePath>> \o (IF Head(imgs[i].url) = "/" THEN Tail(imgs[i].url) ELSE imgs[i].url)]]

\* Tokens whose text starts with a double quote: they end a quoted attribute value.
QuoteTokens == {"\"", DivClose, SpanClose, ImgAlt, ImgCloseItem, ImgCloseDirect, StandaloneClose}

\* containerRef.current.innerHTML = rendered; querySelectorAll('[data-math]'); and
\* for each element getAttribute('data-math') and getAttribute('data-display'):
\* the value of a quoted attribute ends at the first double quote after its
\* opening one, and the tag runs on to the ">" of the closing half of the markup.
\* (No text of the model holds a character reference inside a payload.)
RECURSIVE MathElements(_, _)
MathElements(s, i) ==
    LET o == IndexFrom({DivOpen, SpanOpen}, s, i)
        q == IF o = 0 THEN 0 ELSE IndexFrom(QuoteTokens, s, o + 1)
        c == IF o = 0 THEN 0 ELSE IndexFrom({DivClose, SpanClose}, s, o + 1)
    IN IF c = 0 THEN <<>>
       ELSE <<[tex |-> SubSeq(s, o + 1, q - 1), isDisplay |-> s[c] = DivClose]>>
                \o MathElements(s, c + 1)

\* What katex.render leaves in an element it rendered.
KatexOutput == <<"<span class=\"katex\">">>

VARIABLES
    content,        \* the content prop
    images,         \* the images prop, entries in insertion order
    basePath,       \* import.meta.env.BASE_URL
    pc,             \* "mounted", "hydrating", "done"
    paragraphs,     \* parseAndRender: the text before the restore loop
    mathBlocks,     \* parseAndRender: mathBlocks, entries in insertion order
    mathCounter,    \* parseAndRender: mathCounter at the return
    figures,        \* parseAndRender: what each figure environment was replaced by
    rendered,       \* the string parseAndRender returned (innerHTML)
    mathElements,   \* the [data-math] elements in document order: tex, isDisplay
    next,           \* index of the element forEach visits next
    visited,        \* per element visited: whether katex.render threw, and its content
    again,          \* parseAndRender applied to rendered, <<"?">> before it is
    projectsDir,    \* the projects directory: whether it exists, and its entries
    ipc,            \* ingestProjects: "idle", "start", "loop", "returned", "rejected"
    projectFolders, \* ingestProjects: projectFolders
    folderIdx,      \* index of the folder the for loop takes next
    projects,       \* ingestProjects: projects
    outputFile      \* projectIndex.json: whether this run wrote it, and the records

renderVars == <<content, images, basePath, pc, paragraphs, mathBlocks, mathCounter, figures,
                rendered, mathElements, next, visited, again>>
ingestVars == <<projectsDir, ipc, projectFolders, folderIdx, projects, outputFile>>
vars == <<renderVars, ingestVars>>

NotYet == <<"?">>

\* ---- the documents
\* Free-form math text.
MathAlphabet == {"$", "\\[", "\\]", "\\begin{equation}", "\\end{equation}", "x", " ", "\""}
MathDocs == SeqsUpTo(MathAlphabet, MaxLen)

\* lines joined by "\n".
RECURSIVE JoinLines(_)
JoinLines(lines) ==
    IF lines = <<>> THEN <<>>
    ELSE IF Len(lines) = 1 THEN <<Head(lines)>>
    ELSE <<Head(lines), "\n">> \o JoinLines(Tail(lines))

\* One display span of several lines, a line being a letter or a command, with
\* text or an inline span after it, as it stands or commented out.
DisplayDocs ==
    {pre \o <<"\\[">> \o JoinLines(lines) \o <<"\\]">> \o post :
        pre \in {<<>>, <<"%">>},
        lines \in SeqsUpTo({"x", "\\alpha"}, MaxLines),
        post \in {<<>>, <<" ", "&">>, <<" ", "$", "x", "$">>}}

\* One list: text or nothing before it, text or nothing before the first \item,
\* then the items, each empty or a letter.
ItemTexts == {<<>>, <<" ", "A">>, <<" ", "B", "\n">>}
ListBodies ==
    {lead \o Flatten([i \in 1..Len(items) |-> <<"\\item">> \o items[i]]) :
        lead \in {<<>>, <<"x">>}, items \in SeqsUpTo(ItemTexts, MaxItems)}
ListDocs ==
    {pre \o <<env[1]>> \o body \o <<env[2]>> \o post :
        pre \in {<<>>, <<"x", "\n">>, <<"$", "x", "$", "\n">>},
        env \in {<<"\\begin{itemize}", "\\end{itemize}">>, <<"\\begin{enumerate}", "\\end{enumerate}">>},
        body \in ListBodies,
        post \in {<<>>}}

\* One figure: blocks, each an image written directly, in a subfigure or in a
\* minipage.
Block(kind, path) ==
    CASE kind = "direct" -> <<IncludeOpen, path, BraceClose>>
      [] kind = "subfigure" -> <<SubfigureBegin, IncludeOpen, path, BraceClose, SubfigureEnd>>
      [] kind = "minipage" -> <<MinipageBegin, IncludeOpen, path, BraceClose, MinipageEnd>>
BlockKinds == {"direct", "subfigure", "minipage"}
Figure(blocks) == <<FigureBegin>> \o Flatten(blocks) \o <<FigureEnd>>
FigureDocs ==
    {Figure(blocks) : blocks \in SeqsUpTo({Block(k, p) : k \in BlockKinds, p \in {"a.p", "m.p"}}, MaxBlocks)}
        \cup {Figure(<<Block(k, p)>>) \o post :
                k \in BlockKinds, p \in PathTokens, post \in {<<>>, <<"$", "x", "$">>}}
        \cup {<<IncludeOpen, p, BraceClose>> : p \in PathTokens}

\* One figure with an image that resolves and a top-level caption before or
\* after it, the caption text holding letters and balanced brace groups; then
\* nothing or an inline span.
Balanced(t) ==
    /\ Count(BraceOpen, t) = Count(BraceClose, t)
    /\ \A k \in 1..Len(t) : Count(BraceOpen, SubSeq(t, 1, k)) >= Count(BraceClose, SubSeq(t, 1, k))
CaptionTexts ==
    {t \in SeqsUpTo({"x", BraceOpen, BraceClose}, MaxCaption) : t # <<>> /\ Balanced(t)}
CaptionDocs ==
    {<<FigureBegin>> \o (IF first THEN <<>> ELSE Block(k, "a.p"))
         \o <<CaptionOpen>> \o t \o <<BraceClose>>
         \o (IF first THEN Block(k, "a.p") ELSE <<>>) \o <<FigureEnd>> \o post :
        first \in BOOLEAN, k \in BlockKinds, t \in CaptionTexts,
        post \in {<<>>, <<"$", "x", "$">>}}

\* Body text with one text-formatting command: at the start of the text, after
\* plain text of the same paragraph, or in a paragraph of its own after another;
\* then nothing, more text, or an inline span.
FormatBodies == {<<"x">>, <<"A", " ", "B">>}
FormatDocs ==
    {pre \o <<FormatCommands[n].command>> \o body \o <<BraceClose>> \o post :
        pre \in {<<>>, <<"x", " ">>, <<"x", "\n", "\n">>},
        n \in DOMAIN FormatCommands, body \in FormatBodies,
        post \in {<<>>, <<" ", "x">>, <<" ", "$", "x", "$">>}}

\* Up to MaxSpans math spans, inline and display in any order, a space between
\* one and the next.
SpanShapes ==
    {<<"$", "x", "$">>, <<"\\[", "x", "\\]">>, <<"$", "$", "x", "$", "$">>,
     <<"\\begin{equation}", "x", "\\end{equation}">>}
SpanDocs ==
    {Flatten([i \in 1..Len(ss) |-> IF i = 1 THEN ss[i] ELSE <<" ">> \o ss[i]]) :
        ss \in SeqsUpTo(SpanShapes, MaxSpans) \ {<<>>}}

\* The image mappings: none, one file, two files of one stem; every file is
\* served from /assets/d/.
Entry(file) == [key |-> file, url |-> <<"/", "assets/", "d", "/", file>>]
ImageMaps == {<<>>, <<Entry("A.P")>>, <<Entry("a.j"), Entry("a.p")>>}

\* The folder names, the documents (by their image paths) and the listings of
\* the projects directory, in the order readdirSync returns them.
FolderNames == {"Project-1", "Project - 2", "Demo!", "demo", "d_e"}
RefLists ==
    {<<>>, <<"a.p">>, <<"d/m.p">>, <<"d/a.p">>, <<"d/b.p", "d/a.p">>, <<"d/a.p", "d/m.p", "d/a.p">>}
DirEntries ==
    {[name |-> n, isDirectory |-> FALSE, hasTex |-> FALSE, refs |-> <<>>] : n \in FolderNames}
        \cup {[name |-> n, isDirectory |-> TRUE, hasTex |-> FALSE, refs |-> <<>>] : n \in FolderNames}
        \cup {[name |-> n, isDirectory |-> TRUE, hasTex |-> TRUE, refs |-> r] :
                 n \in FolderNames, r \in RefLists}
Listings ==
    {l \in SeqsUpTo(DirEntries, MaxFolders) :
        \A i, j \in 1..Len(l) : i # j => l[i].name # l[j].name}

\* The extractor before it runs, or not run at all.
InitIngestLocals ==
    /\ projectFolders = <<>>
    /\ folderIdx = 1
    /\ projects = <<>>
    /\ outputFile = [written |-> FALSE, projects |-> <<>>]
IngestIdle ==
    /\ projectsDir = [exists |-> FALSE, entries |-> <<>>]
    /\ ipc = "idle"
    /\ InitIngestLocals

InitCommon ==
    /\ IngestIdle
    /\ pc = "mounted"
    /\ paragraphs = <<>>
    /\ mathBlocks = <<>>
    /\ mathCounter = 0
    /\ figures = <<>>
    /\ rendered = <<>>
    /\ mathElements = <<>>
    /\ next = 1
    /\ visited = <<>>
    /\ again = NotYet

Init ==
    /\ content \in MathDocs \cup DisplayDocs
    /\ images = <<>>
    /\ basePath = "/"
    /\ InitCommon

InitList ==
    /\ content \in ListDocs
    /\ images = <<>>
    /\ basePath = "/"
    /\ InitCommon

InitFigure ==
    /\ content \in FigureDocs
    /\ images \in ImageMaps
    /\ basePath \in BasePaths
    /\ InitCommon

InitCaption ==
    /\ content \in CaptionDocs
    /\ images \in ImageMaps \ {<<>>}
    /\ basePath \in BasePaths
    /\ InitCommon

InitFormat ==
    /\ content \in FormatDocs
    /\ images = <<>>
    /\ basePath \in BasePaths
    /\ InitCommon

InitSpans ==
    /\ content \in SpanDocs
    /\ images = <<>>
    /\ basePath \in BasePaths
    /\ InitCommon

\* The extractor is started; the component is not mounted on anything.
InitIngest ==
    /\ projectsDir \in {[exists |-> FALSE, entries |-> <<>>]}
                         \cup {[exists |-> TRUE, entries |-> l] : l \in Listings}
    /\ ipc = "start"
    /\ InitIngestLocals
    /\ content = <<>>
    /\ images = <<>>
    /\ basePath = "/"
    /\ pc = "mounted"
    /\ paragraphs = <<>>
    /\ mathBlocks = <<>>
    /\ mathCounter = 0
    /\ figures = <<>>
    /\ rendered = <<>>
    /\ mathElements = <<>>
    /\ next = 1
    /\ visited = <<>>
    /\ again = NotYet

\* The effect of TeXRenderer up to the forEach: processedImages, parseAndRender,
\* innerHTML, querySelectorAll.
Effect ==
    /\ pc = "mounted"
    /\ \E r \in {parseAndRender(content, ProcessedImages(images, basePath))} :
          /\ paragraphs' = r.paragraphs
          /\ mathBlocks' = r.mathBlocks
          /\ mathCounter' = r.mathCounter
          /\ figures' = r.figures
          /\ rendered' = r.result
          /\ mathElements' = MathElements(r.result, 1)
    /\ next' = 1
    /\ visited' = <<>>
    /\ pc' = "hydrating"
    /\ UNCHANGED <<content, images, basePath, again>>
    /\ UNCHANGED ingestVars

\* The forEach callback without its try/catch: a throw of katex.render leaves
\* the callback and forEach, and the effect ends there.
RenderElementUncaught(threw) ==
    /\ pc = "hydrating"
    /\ next <= Len(mathElements)
    /\ IF threw
       THEN pc' = "done" /\ UNCHANGED <<next, visited>>
       ELSE /\ visited' = Append(visited, [threw |-> FALSE, content |-> KatexOutput])
            /\ next' = next + 1
            /\ UNCHANGED pc
    /\ UNCHANGED <<content, images, basePath, paragraphs, mathBlocks, mathCounter,
                   figures, rendered, mathElements, again>>
    /\ UNCHANGED ingestVars

\* One call of the forEach callback: katex.render returns or throws; a throw is
\* caught and the element's textContent becomes tex || ''.
RenderElement(threw) ==
    /\ pc = "hydrating"
    /\ next <= Len(mathElements)
    /\ visited' = Append(visited,
           [threw |-> threw,
            content |-> IF threw THEN mathElements[next].tex ELSE KatexOutput])
    /\ next' = next + 1
    /\ UNCHANGED <<content, images, basePath, pc, paragraphs, mathBlocks, mathCounter,
                   figures, rendered, mathElements, again>>
    /\ UNCHANGED ingestVars

\* forEach returns: the effect is over.
EffectDone ==
    /\ pc = "hydrating"
    /\ next > Len(mathElements)
    /\ pc' = "done"
    /\ UNCHANGED <<content, images, basePath, paragraphs, mathBlocks, mathCounter, figures,
                   rendered, mathElements, next, visited, again>>
    /\ UNCHANGED ingestVars

\* parseAndRender applied to its own output, with the same image mapping.
Retranspile ==
    /\ pc = "done"
    /\ again = NotYet
    /\ again' = parseAndRender(rendered, ProcessedImages(images, basePath)).result
    /\ UNCHANGED <<content, images, basePath, pc, paragraphs, mathBlocks, mathCounter,
                   figures, rendered, mathElements, next, visited>>
    /\ UNCHANGED ingestVars

\* The component on its own.
Mount ==
    \/ Effect
    \/ \E threw \in BOOLEAN : RenderElement(threw)
    \/ EffectDone

\* The component, and its output transpiled again.
Next ==
    \/ Mount
    \/ Retranspile

\* ---- ingestProjects
\* Lines 107-112: no projects directory; it is made, an empty index is written
\* and the function returns.
CreateProjectsDir ==
    /\ ipc = "start"
    /\ ~projectsDir.exists
    /\ projectsDir' = [exists |-> TRUE, entries |-> <<>>]
    /\ outputFile' = [written |-> TRUE, projects |-> <<>>]
    /\ ipc' = "returned"
    /\ UNCHANGED <<projectFolders, folderIdx, projects>>
    /\ UNCHANGED renderVars

\* Line 114: fs.readdirSync(projectsDir).sort()
ReadProjectsDir ==
    /\ ipc = "start"
    /\ projectsDir.exists
    /\ projectFolders' = SortByKeys(projectsDir.entries,
                                    [i \in 1..Len(projectsDir.entries) |-> NameChars(projectsDir.entries[i].name)],
                                    FALSE)
    /\ folderIdx' = 1
    /\ ipc' = "loop"
    /\ UNCHANGED <<projectsDir, projects, outputFile>>
    /\ UNCHANGED renderVars

\* Lines 133-146 for a folder with a document: the record pushed.
ProjectRecord(slug, imgs, preview) == [slug |-> slug, images |-> imgs, previewImage |-> preview.value]

\* Lines 133-148 with the values of the locals: getPreviewImage throws, which
\* rejects the promise of ingestProjects (line 157 logs it), or the record is
\* pushed.
PushProject(slug, imgs, preview) ==
    IF preview.threw
    THEN ipc' = "rejected" /\ UNCHANGED <<projects, folderIdx>>
    ELSE /\ projects' = Append(projects, ProjectRecord(slug, imgs, preview))
         /\ folderIdx' = folderIdx + 1
         /\ UNCHANGED ipc

IngestDocument(slug, imgs) == PushProject(slug, imgs, getPreviewImage(imgs, slug))

\* One turn of the for loop (lines 116-149).
IngestFolder ==
    /\ ipc = "loop"
    /\ folderIdx <= Len(projectFolders)
    /\ IF ~projectFolders[folderIdx].isDirectory \/ ~projectFolders[folderIdx].hasTex
       THEN folderIdx' = folderIdx + 1 /\ UNCHANGED <<projects, ipc>>
       ELSE IngestDocument(slugify(NameChars(projectFolders[folderIdx].name)),
                           extractImages(projectFolders[folderIdx].refs, <<>>))
    /\ UNCHANGED <<projectsDir, projectFolders, outputFile>>
    /\ UNCHANGED renderVars

\* Lines 151-153: the records are sorted by slug and the index is written.
WriteIndex ==
    /\ ipc = "loop"
    /\ folderIdx > Len(projectFolders)
    /\ projects' = SortByKeys(projects, [i \in 1..Len(projects) |-> projects[i].slug], TRUE)
    /\ outputFile' = [written |-> TRUE, projects |-> projects']
    /\ ipc' = "returned"
    /\ UNCHANGED <<projectsDir, projectFolders, folderIdx>>
    /\ UNCHANGED renderVars

NextIngest ==
    \/ CreateProjectsDir
    \/ ReadProjectsDir
    \/ IngestFolder
    \/ WriteIndex

Spec == Init /\ [][Next]_vars
SpecList == InitList /\ [][Mount]_vars
SpecFigure == InitFigure /\ [][Mount]_vars
SpecCaption == InitCaption /\ [][Mount]_vars
SpecFormat == InitFormat /\ [][Mount]_vars
SpecSpans == InitSpans /\ [][Mount]_vars
SpecIngest == InitIngest /\ [][NextIngest]_vars

\* ------------------------------------------------------------- properties

\* The document is one math span: open, a payload without delimiters, close.
IsSpanDoc(open, close) ==
    /\ Len(content) >= 2
    /\ content[1] \in open
    /\ content[Len(content)] \in close
    /\ \A i \in 2..(Len(content) - 1) : content[i] \in {"x", " ", "\""}
\* The source text between the delimiters of such a document.
Payload == SubSeq(content, 2, Len(content) - 1)

\* C1: the TeX string hydration reads from data-math and hands to the math
\* renderer is the source text between the delimiters, trimmed, whatever
\* characters the span holds (here: for a document that is one span).
C1_PayloadReachesRenderer ==
    pc # "mounted" =>
        /\ (IsSpanDoc({"\\["}, {"\\]"}) \/ IsSpanDoc({"\\begin{equation}"}, {"\\end{equation}"}))
              => mathElements = <<[tex |-> Trim(Payload), isDisplay |-> TRUE]>>
        /\ (IsSpanDoc({"$"}, {"$"}) /\ Len(content) >= 3)
              => mathElements = <<[tex |-> Trim(Payload), isDisplay |-> FALSE]>>

\* How many times the text v occurs in s.
Occurrences(v, s) ==
    Cardinality({j \in 1..(Len(s) - Len(v) + 1) : SubSeq(s, j, j + Len(v) - 1) = v})

\* C2: every key minted by the extraction is replaced by its stored markup
\* exactly once: the returned string holds the markup of each key as many times
\* as keys were minted with that markup, and no key text is left in it.
C2_EveryKeyRestoredOnce ==
    pc # "mounted" =>
        /\ \A i \in 1..Len(mathBlocks) :
              Occurrences(mathBlocks[i].value, rendered)
                  = Cardinality({j \in 1..Len(mathBlocks) : mathBlocks[j].value = mathBlocks[i].value})
        /\ \A j \in 1..Len(rendered) : rendered[j] \notin KeyTokens

\* C3: no later extraction pass captures text an earlier pass claimed: the
\* markup stored for a key never holds another key.
C3_NoKeyInsidePayload ==
    \A i \in 1..Len(mathBlocks) :
        \A j \in 1..Len(mathBlocks[i].value) : mathBlocks[i].value[j] \notin KeyTokens

\* C4: transpiling the output again never escapes an entity a second time.
C4_NoDoubleEscape ==
    again # NotYet =>
        \A j \in 1..Len(again) : again[j] \notin {"&amp;amp;", "&amp;quot;"}

\* C9: a failure of the math renderer on one element is confined to it: when
\* the effect is over every math element was visited, in document order; an
\* element whose rendering threw shows its TeX text, every other one was
\* rendered.
C9_FailureConfined ==
    /\ Len(visited) <= Len(mathElements)
    /\ \A i \in 1..Len(visited) :
          visited[i].content = IF visited[i].threw THEN mathElements[i].tex ELSE KatexOutput
    /\ pc = "done" => Len(visited) = Len(mathElements)

\* C9 happens: the first of two elements threw, the second was rendered.
C9_Witness ==
    /\ pc = "done"
    /\ Len(mathElements) = 2
    /\ visited[1].threw
    /\ visited[1].content = mathElements[1].tex
    /\ ~visited[2].threw
    /\ visited[2].content = KatexOutput

\* The texts of the non-empty \item entries of a list document, in source
\* order: an item of the documents is empty or one of the letters A, B.
IsItemText(t) == t \in {"A", "B"}
ItemLetters == SelectSeq(content, IsItemText)
\* Where the list-item elements of the returned string start.
IsLiOpen(i) == rendered[i] = LiOpen
LiPositions == SelectSeq([i \in 1..Len(rendered) |-> i], IsLiOpen)
\* The marker of the k-th item.
Marker(k) == IF \E i \in 1..Len(content) : content[i] = "\\begin{enumerate}" THEN Ordinals[k] ELSE Bullet

\* C8: a list with n non-empty \item entries gives exactly n list-item
\* elements in source order, each starting with the bullet marker (itemize) or
\* with its 1-based ordinal (enumerate); empty items give none.
C8_OneElementPerItem ==
    pc # "mounted" =>
        /\ Len(LiPositions) = Len(ItemLetters)
        /\ \A k \in 1..Len(LiPositions) :
              /\ LiPositions[k] + 3 <= Len(rendered)
              /\ SubSeq(rendered, LiPositions[k], LiPositions[k] + 3)
                    = <<LiOpen, Marker(k), ItemLetters[k], LiClose>>

\* ---- figures
\* The document is one figure environment and nothing else.
IsFigureDoc ==
    /\ Len(content) >= 2
    /\ content[1] = FigureBegin
    /\ content[Len(content)] = FigureEnd
\* Where the image references of the document are (the index of the path).
ImageRefs == {i + 1 : i \in {k \in 1..Len(content) : ImageAt(content, k)}}
\* The bare file name of a path: directory prefix and white space removed.
BareName(p) == RemoveSpaces(LastSegment(NameChars(p)))
\* The entries of the mapping whose key equals the file name ignoring case, and
\* those whose key equals it without extension ignoring case.
ExactKeys(p) ==
    {i \in 1..Len(images) : toLowerCase(NameChars(images[i].key)) = toLowerCase(BareName(p))}
StemKeys(p) ==
    {i \in 1..Len(images) :
        toLowerCase(StripExtension(NameChars(images[i].key))) = toLowerCase(StripExtension(BareName(p)))}
Resolves(p) == ExactKeys(p) \cup StemKeys(p) # {}
\* The URL the component passes to parseAndRender for entry i.
UrlOf(i) == ProcessedImages(images, basePath)[i].url
\* The src values of the img elements of a text, in order.
IsImgOpen(t) == t = ImgOpen
ImgCount(s) == Len(SelectSeq(s, IsImgOpen))
SrcAt(s, o) == SubSeq(s, o + 1, IndexFrom({ImgAlt}, s, o) - 1)
Srcs(s) == {SrcAt(s, o) : o \in {k \in 1..Len(s) : s[k] = ImgOpen}}

\* C5: in a figure the bare file name of the path resolves to the URL of the key
\* equal to it ignoring case when there is one, and otherwise to the URL of a key
\* equal to it without extension ignoring case (here: figures of one image).
C5_ExactKeyBeforeStem ==
    (pc # "mounted" /\ IsFigureDoc /\ Cardinality(ImageRefs) = 1) =>
        \A r \in ImageRefs :
            /\ ExactKeys(content[r]) # {}
                  => Srcs(figures[1]) \subseteq {UrlOf(i) : i \in ExactKeys(content[r])}
            /\ (ExactKeys(content[r]) = {} /\ StemKeys(content[r]) # {})
                  => Srcs(figures[1]) \subseteq {UrlOf(i) : i \in StemKeys(content[r])}
            /\ Resolves(content[r]) => ImgCount(figures[1]) = 1

\* C6 as stated: a figure none of whose image references matches an entry of the
\* mapping contributes the empty string, no figure element and no img tag.
C6_UnresolvedFigureEmpty ==
    (pc # "mounted" /\ IsFigureDoc /\ \A r \in ImageRefs : ~Resolves(content[r])) =>
        /\ figures = << <<>> >>
        /\ \A j \in 1..Len(rendered) : rendered[j] \notin {FigureOpen, ImgOpen}

\* The paths referenced in subfigure blocks.
SubfigureRefs == {r \in ImageRefs : r > 2 /\ content[r - 2] = SubfigureBegin}

\* C6: a figure none of whose image references matches an entry of the mapping
\* and none of whose references is in a subfigure block contributes the empty
\* string, no figure element and no img tag; with references in subfigure
\* blocks it is a figure element holding one img per such reference, whose src
\* is /assets/ followed by the path as written.
C6_UnresolvedOutsideSubfigures ==
    (pc # "mounted" /\ IsFigureDoc /\ \A r \in ImageRefs : ~Resolves(content[r])) =>
        /\ SubfigureRefs = {} =>
              /\ figures = << <<>> >>
              /\ \A j \in 1..Len(rendered) : rendered[j] \notin {FigureOpen, ImgOpen}
        /\ SubfigureRefs # {} =>
              /\ ImgCount(figures[1]) = Cardinality(SubfigureRefs)
              /\ Srcs(figures[1]) = {<<AssetsPrefix, content[r]>> : r \in SubfigureRefs}
              /\ Count(FigureOpen, rendered) = 1

\* C6 happens: a minipage image and a direct image, a mapping with entries,
\* no reference matches, and the figure is gone.
C6_Witness ==
    /\ pc = "done"
    /\ IsFigureDoc
    /\ images # <<>>
    /\ Occurs(MinipageBegin, content)
    /\ \E r \in ImageRefs : content[r - 2] = FigureBegin \/ content[r - 2] = MinipageEnd
    /\ \A r \in ImageRefs : ~Resolves(content[r])
    /\ figures = << <<>> >>
    /\ rendered = <<>>

\* The blocks of the figure document.
BlockCount == Count(SubfigureBegin, content) + Count(MinipageBegin, content)
AllResolve == ImageRefs # {} /\ \A r \in ImageRefs : Resolves(content[r])

\* C7 as stated: four image-inclusion commands that all resolve give four img
\* elements in the grid layout, three give three img elements in the flex-wrap
\* layout, however the images are written.
C7_FourInGridThreeInFlex ==
    (pc # "mounted" /\ IsFigureDoc /\ AllResolve) =>
        /\ Cardinality(ImageRefs) = 4
              => ImgCount(figures[1]) = 4 /\ Occurs(GridOpen, figures[1])
        /\ Cardinality(ImageRefs) = 3
              => ImgCount(figures[1]) = 3 /\ Occurs(FlexOpen, figures[1])

\* C7: when every image reference resolves, the figure holds one img per
\* subfigure or minipage block, or, without any block, one img for the first
\* direct image only; it has the grid layout when that makes exactly four img
\* elements and the flex-wrap layout otherwise.
C7_LayoutByRenderedImages ==
    (pc # "mounted" /\ IsFigureDoc /\ AllResolve) =>
        /\ ImgCount(figures[1]) = IF BlockCount > 0 THEN BlockCount ELSE 1
        /\ Occurs(GridOpen, figures[1]) <=> ImgCount(figures[1]) = 4
        /\ Occurs(FlexOpen, figures[1]) <=> ImgCount(figures[1]) # 4

\* C7 happens: subfigure and minipage blocks, four in all, every image
\* resolves, and the figure has four img elements in the grid layout.
C7_Witness ==
    /\ pc = "done"
    /\ IsFigureDoc
    /\ AllResolve
    /\ Occurs(SubfigureBegin, content)
    /\ Occurs(MinipageBegin, content)
    /\ BlockCount = 4
    /\ Cardinality(ImageRefs) = 4
    /\ ImgCount(figures[1]) = 4
    /\ Occurs(GridOpen, rendered)

\* ---- the extractor
\* The preview image the three steps give for a record, when they give one.
IsCoverOrFirst(p) ==
    IF p.slug \in CoverSlugs THEN p.previewImage = CoverImage(p.slug)
    ELSE IF Len(p.images) > 0 THEN p.previewImage = p.images[1].url
    ELSE p.previewImage # <<>>

\* C10: the preview image of every project is the curated cover when the slug
\* is in the table, else the URL of the first-inserted entry of the mapping,
\* else a placeholder path; choosing it never aborts the run.
C10_PreviewNeverAborts ==
    /\ ipc # "rejected"
    /\ \A i \in 1..Len(projects) : IsCoverOrFirst(projects[i])

\* The characters a slug may be made of: lower-case letters, digits, hyphen.
SlugChars == {"a", "b", "c", "d", "e", "j", "m", "o", "p", "r", "t", "x", "1", "2", "-"}

\* C11: in the index one run writes, the slugs of the records are pairwise
\* distinct, at most 50 characters long, and made of lower-case letters,
\* digits and hyphens only.
C11_SlugsUniqueAndUrlSafe ==
    outputFile.written =>
        /\ \A i, j \in 1..Len(outputFile.projects) :
              i # j => outputFile.projects[i].slug # outputFile.projects[j].slug
        /\ \A i \in 1..Len(outputFile.projects) :
              /\ Len(outputFile.projects[i].slug) <= SlugMax
              /\ \A k \in 1..Len(outputFile.projects[i].slug) :
                    outputFile.projects[i].slug[k] \in SlugChars

\* ---- captions
\* C12: a figure with an image that resolves and a top-level \caption{T}, T
\* holding balanced brace groups, is rendered with a caption paragraph whose
\* text is the whole of T, up to the brace that balances the opening one.
C12_WholeCaptionRendered ==
    (pc # "mounted" /\ content[1] = FigureBegin /\ Occurs(CaptionOpen, content)) =>
        /\ Len(figures) = 1
        /\ Occurrences(<<CaptionPOpen>> \o Caption(content) \o <<PClose>>, figures[1]) = 1

\* ---- text formatting
IsFormatDoc == \E n \in 1..6 : Occurs(FormatCommands[n].command, content)
Format == FormatCommands[CHOOSE n \in 1..6 : Occurs(FormatCommands[n].command, content)]
FormatBody ==
    SubSeq(content, IndexFrom({Format.command}, content, 1) + 1,
           IndexFrom({BraceClose}, content, 1) - 1)
\* C13: a bold, italic, monospace, emphasis, slanted or small-caps command in
\* body text, wherever it stands in its paragraph, is in the final output as its
\* inline element around the argument, and no escaped tag text is in the output.
C13_InlineElementsNotEscaped ==
    (pc # "mounted" /\ IsFormatDoc) =>
        /\ Occurrences(Format.open \o FormatBody \o Format.close, rendered) = 1
        /\ \A i \in 1..Len(rendered) : \A t \in InlineTags : rendered[i] # EscapeToken(t)

\* ---- key numbering
IsDisplayKey(t) == \E n \in DOMAIN DisplayKeys : t = DisplayKeys[n]
IsInlineKey(t) == \E n \in DOMAIN InlineKeys : t = InlineKeys[n]
IsKey(t) == IsDisplayKey(t) \/ IsInlineKey(t)
KeyNumber(t) == (CHOOSE n \in DOMAIN DisplayKeys : t \in {DisplayKeys[n], InlineKeys[n]}) - 1
\* The keys of one call are pairwise distinct and take the numbers 0, 1, 2, ...
\* of one counter in the order they are minted.
OneCounterFromZero ==
    /\ mathCounter = Len(mathBlocks)
    /\ \A i \in DOMAIN mathBlocks : IsKey(mathBlocks[i].key) /\ KeyNumber(mathBlocks[i].key) = i - 1
    /\ \A i, j \in DOMAIN mathBlocks : i # j => mathBlocks[i].key # mathBlocks[j].key
\* C14 as stated: the keys of one call come from one counter that starts at 0
\* and are pairwise distinct, and their numbers increase in the order in which
\* the spans appear in the text, display and inline spans counted together.
C14_NumbersFollowTextOrder ==
    pc # "mounted" =>
        /\ OneCounterFromZero
        /\ \A p, q \in DOMAIN paragraphs :
               (p < q /\ IsKey(paragraphs[p]) /\ IsKey(paragraphs[q])) =>
                   KeyNumber(paragraphs[p]) < KeyNumber(paragraphs[q])
\* Where the spans of a document of spans start, the place of a span's notation
\* in the order of the source's replace calls (lines 67-121), and the keys of
\* the text the restore loop starts from, left to right.
SpanStarts == SelectSeq([i \in 1..Len(content) |-> i], LAMBDA p : p = 1 \/ content[p - 1] = " ")
SpanRank(p) ==
    CASE content[p] = "\\[" -> 1
      [] content[p] = "$" /\ content[p + 1] = "$" -> 2
      [] content[p] = "\\begin{equation}" -> 3
      [] content[p] = "$" /\ content[p + 1] # "$" -> 8
KeysInText == SelectSeq(paragraphs, IsKey)
\* C14 amended: one counter from 0 and pairwise distinct keys; the numbers
\* follow the passes and, within a pass, the text: of two spans the one whose
\* notation is extracted by the earlier pass has the smaller number, and of two
\* spans of one notation the one that stands first.  So every display key has a
\* smaller number than every inline key.
C14_NumbersFollowPassOrder ==
    pc # "mounted" =>
        /\ Len(KeysInText) = Len(SpanStarts)
        /\ \A i, j \in DOMAIN KeysInText :
               KeyNumber(KeysInText[i]) < KeyNumber(KeysInText[j]) <=>
                   \/ SpanRank(SpanStarts[i]) < SpanRank(SpanStarts[j])
                   \/ SpanRank(SpanStarts[i]) = SpanRank(SpanStarts[j]) /\ i < j
        /\ OneCounterFromZero
        /\ \A i, j \in DOMAIN mathBlocks :
               (IsDisplayKey(mathBlocks[i].key) /\ IsInlineKey(mathBlocks[j].key)) => i < j
        /\ \A p, q \in DOMAIN paragraphs :
               (p < q /\ IsInlineKey(paragraphs[p]) /\ IsInlineKey(paragraphs[q])) =>
                   KeyNumber(paragraphs[p]) < KeyNumber(paragraphs[q])
\* An inline span stands before a display span in the text and has the larger number.
C14_Witness ==
    /\ pc # "mounted"
    /\ Len(mathBlocks) = 2
    /\ \E p, q \in DOMAIN paragraphs :
           p < q /\ paragraphs[p] = InlineKeys[2] /\ paragraphs[q] = DisplayKeys[1]
====
